---- MODULE Spec2Model ----
(***************************************************************************)
(* ftfy/badness.py: the heuristics that score how "weird" a text is.       *)
(*                                                                         *)
(* A text is a sequence of characters, a classified string a sequence of   *)
(* category tags.  A compiled pattern is the sequence of its alternatives  *)
(* in the order the source joins them with '|'; an alternative is the      *)
(* sequence of its character classes, each the set of symbols it accepts.  *)
(* No pattern of the module has a quantifier, so an alternative matches    *)
(* exactly as many symbols as it has classes.                              *)
(***************************************************************************)
EXTENDS Integers, Sequences, FiniteSets, TLC

VARIABLES
    WEIRDNESS_RE,        \* module global, badness.py line 95
    COMMON_SYMBOL_RE,    \* module global, badness.py lines 99-115
    MOJIBAKE_SYMBOL_RE,  \* module global, badness.py lines 125-154
    call,                \* one sequential call of sequence_weirdness / text_cost
    run,                 \* one evaluation of WEIRDNESS_RE.findall on a class string
    th                   \* the frames of the calls running in concurrent threads

vars == <<WEIRDNESS_RE, COMMON_SYMBOL_RE, MOJIBAKE_SYMBOL_RE, call, run, th>>

-----------------------------------------------------------------------------
(* Bounds of the model.                                                    *)

\* longest text handed to sequence_weirdness / text_cost
MaxLen == 3
\* longest class string handed to WEIRDNESS_RE.findall on its own
MaxTagLen == 3
\* longest text scored while the classifier breaks its length contract
MaxMisLen == 2
\* calls each concurrent thread makes
MaxCalls == 1

-----------------------------------------------------------------------------
(* The category alphabet: the legend of badness.py lines 13-28, and the    *)
(* tags 'i' (IPA) and 'P' (private use) that the pattern of lines 61-62    *)
(* and 76 uses.                                                            *)

Tags ==
    {"L", "l", "A", "a", "C", "X", "m", "M", "N", "1", "2", "3",
     "S", "_", " ", "o", "i", "P"}

(* The characters of the model: one or more representatives of every       *)
(* character class the three patterns and the normalization distinguish.   *)
(*   e      LATIN SMALL LETTER E                                           *)
(*   U+0308 COMBINING DIAERESIS                                            *)
(*   e:     LATIN SMALL LETTER E WITH DIAERESIS  (NFC of e, U+0308)        *)
(*   A^     LATIN CAPITAL LETTER A WITH CIRCUMFLEX                         *)
(*   a^     LATIN SMALL LETTER A WITH CIRCUMFLEX                           *)
(*   eth    LATIN SMALL LETTER ETH                                         *)
(*   ss     LATIN SMALL LETTER SHARP S                                     *)
(*   ve     CYRILLIC SMALL LETTER VE                                       *)
(*   DJE    CYRILLIC CAPITAL LETTER DJE                                    *)
(*   U+009F a C1 control character                                         *)
(*   ldquo  LEFT DOUBLE QUOTATION MARK                                     *)
(*   raquo  RIGHT-POINTING DOUBLE ANGLE QUOTATION MARK                     *)
(*   deg    DEGREE SIGN                                                    *)
(*   times  MULTIPLICATION SIGN                                            *)
(*   acute  ACUTE ACCENT                                                   *)
(*   sqrt   SQUARE ROOT                                                    *)
(*   pm     PLUS-MINUS SIGN                                                *)
(*   euro   EURO SIGN                                                      *)
(*   7      DIGIT SEVEN                                                    *)
(*   sp     SPACE                                                          *)
Chars ==
    {"e", "U+0308", "e:", "A^", "a^", "eth", "ss", "ve", "DJE", "U+009F",
     "ldquo", "raquo", "deg", "times", "acute", "sqrt", "pm", "euro", "7", "sp"}

(* ftfy.chardata.chars_to_classes: the class of one character.  The table  *)
(* follows the legend of badness.py lines 13-28 (Unicode general category  *)
(* and script); ACUTE ACCENT is one of the common non-combining diacritics *)
(* that lines 64-68 say were set aside into class 'o'.                     *)
char_class(c) ==
    CASE c \in {"e", "e:", "a^", "eth", "ss"} -> "l"
      [] c = "A^" -> "L"
      [] c = "ve" -> "a"
      [] c = "DJE" -> "A"
      [] c = "U+0308" -> "M"
      [] c = "U+009F" -> "X"
      [] c \in {"times", "sqrt", "pm", "euro"} -> "1"
      [] c = "deg" -> "3"
      [] c = "sp" -> " "
      [] OTHER -> "o"

(* chars_to_classes(text): one tag per character, in order.                *)
chars_to_classes(text) == [k \in 1..Len(text) |-> char_class(text[k])]

(* unicodedata.normalize('NFC', text) on the characters of the model: the  *)
(* only canonical composition among them is e + U+0308 -> e:, and a        *)
(* composed e: takes no second mark.                                       *)
RECURSIVE nfc_from(_, _, _)
nfc_from(text, k, out) ==
    IF k > Len(text) THEN out
    ELSE IF Len(out) > 0 /\ out[Len(out)] = "e" /\ text[k] = "U+0308"
         THEN nfc_from(text, k + 1, [out EXCEPT ![Len(out)] = "e:"])
         ELSE nfc_from(text, k + 1, Append(out, text[k]))

NFC(text) == nfc_from(text, 1, <<>>)

(* \w of the re module on str patterns: alphanumerics and the underscore.  *)
WordChars == {"e", "e:", "A^", "a^", "eth", "ss", "ve", "DJE", "7"}

-----------------------------------------------------------------------------
(* Pattern.findall: the matches of a pattern in a string.                  *)

(* alternative alt matches s at position p                                 *)
MatchesAt(alt, s, p) ==
    /\ p + Len(alt) - 1 <= Len(s)
    /\ \A k \in 1..Len(alt) : s[p + k - 1] \in alt[k]

(* the first alternative, in the order of the pattern, that matches at p   *)
(* (0 when none does)                                                      *)
FirstAlt(re, s, p) ==
    LET I == {i \in 1..Len(re) : MatchesAt(re[i], s, p)}
    IN  IF I = {} THEN 0 ELSE CHOOSE i \in I : \A j \in I : i <= j

(* A scan that restarts one symbol after the start of a match, so that     *)
(* matches overlap.                                                        *)
RECURSIVE ScanOverlapping(_, _, _)
ScanOverlapping(re, s, p) ==
    IF p > Len(s) THEN <<>>
    ELSE LET i == FirstAlt(re, s, p)
         IN  IF i = 0 THEN ScanOverlapping(re, s, p + 1)
             ELSE <<[start |-> p, len |-> Len(re[i]), alt |-> i]>>
                  \o ScanOverlapping(re, s, p + 1)

(* The scan of findall: left to right, a match consumes its symbols and    *)
(* the scan resumes after it.                                              *)
RECURSIVE Scan(_, _, _)
Scan(re, s, p) ==
    IF p > Len(s) THEN <<>>
    ELSE LET i == FirstAlt(re, s, p)
         IN  IF i = 0 THEN Scan(re, s, p + 1)
             ELSE <<[start |-> p, len |-> Len(re[i]), alt |-> i]>>
                  \o Scan(re, s, p + Len(re[i]))

findall(re, s) == Scan(re, s, 1)

-----------------------------------------------------------------------------
(* The three patterns.                                                     *)

exclusive_categories == <<"M", "m", "N", "1", "3">>

(* the loop of lines 86-90: one group per category, cat1 followed by any   *)
(* of the other four                                                       *)
exclusive_groups ==
    [k \in 1..Len(exclusive_categories) |->
        <<{exclusive_categories[k]},
          {exclusive_categories[j] : j \in 1..Len(exclusive_categories)}
              \ {exclusive_categories[k]}>>]

(* A build that matches only Latin lowercase letters beside non-Latin      *)
(* letters.                                                                *)
_make_weirdness_regex_lower ==
    << <<Tags \ {"C", "M"}, {"M"}>>,
       <<{"l"}, {"A", "a", "C"}>>,
       <<{"A", "a", "C"}, {"l"}>>,
       <<{"L", "A"}, {"i"}>>,
       <<{"i"}, {"L", "A"}>>,
       <<{"2"}>>,
       <<{"X"}>>,
       <<{"P"}>>,
       <<{"_"}>> >>
    \o exclusive_groups

(* A build whose loop leaves the last exclusive category out.              *)
_make_weirdness_regex_short ==
    << <<Tags \ {"C", "M"}, {"M"}>>,
       <<{"L", "l"}, {"A", "a", "C"}>>,
       <<{"A", "a", "C"}, {"L", "l"}>>,
       <<{"L", "A"}, {"i"}>>,
       <<{"i"}, {"L", "A"}>>,
       <<{"2"}>>,
       <<{"X"}>>,
       <<{"P"}>>,
       <<{"_"}>> >>
    \o SubSeq(exclusive_groups, 1, Len(exclusive_groups) - 1)

(* A build without the group for C1 control characters.                   *)
_make_weirdness_regex_no_c1 ==
    << <<Tags \ {"C", "M"}, {"M"}>>,
       <<{"L", "l"}, {"A", "a", "C"}>>,
       <<{"A", "a", "C"}, {"L", "l"}>>,
       <<{"L", "A"}, {"i"}>>,
       <<{"i"}, {"L", "A"}>>,
       <<{"2"}>>,
       <<{"P"}>>,
       <<{"_"}>> >>
    \o exclusive_groups

(* A build that matches a non-Latin letter only after a Latin letter, not  *)
(* before one.                                                             *)
_make_weirdness_regex_oneway ==
    << <<Tags \ {"C", "M"}, {"M"}>>,
       <<{"L", "l"}, {"A", "a", "C"}>>,
       <<{"L", "A"}, {"i"}>>,
       <<{"i"}, {"L", "A"}>>,
       <<{"2"}>>,
       <<{"X"}>>,
       <<{"P"}>>,
       <<{"_"}>> >>
    \o exclusive_groups

(* _make_weirdness_regex(): the groups in the order they are appended.     *)
_make_weirdness_regex ==
    << <<Tags \ {"C", "M"}, {"M"}>>,          \* '[^CM]M'
       <<{"L", "l"}, {"A", "a", "C"}>>,       \* '[Ll][AaC]'
       <<{"A", "a", "C"}, {"L", "l"}>>,       \* '[AaC][Ll]'
       <<{"L", "A"}, {"i"}>>,                 \* '[LA]i'
       <<{"i"}, {"L", "A"}>>,                 \* 'i[LA]'
       <<{"2"}>>,                             \* '2'
       <<{"X"}>>,                             \* 'X'
       <<{"P"}>>,                             \* 'P'
       <<{"_"}>> >>                           \* '_'
    \o exclusive_groups

(* COMMON_SYMBOL_RE: one class; the members among the model's characters.  *)
common_symbol_regex ==
    << <<{"ldquo", "raquo", "deg", "times", "acute", "ss"}>> >>

(* MOJIBAKE_SYMBOL_RE: the seven alternatives of lines 129-153, in order,  *)
(* each class cut down to the model's characters.  The non-ASCII literals  *)
(* of those lines are the ones of ftfy's pattern: the capital A's with     *)
(* circumflex, tilde and breve as lead of the first two alternatives, the  *)
(* not sign and the square root of the third, and so on.                   *)
mojibake_symbol_regex ==
    << <<{"A^"}, {"U+009F", "ldquo", "deg", "pm"}>>,  \* [A^A~A(][\x80-\x9f...]
       <<{"A^"}, {"raquo"}, WordChars>>,              \* [A^A~A(][...]\w
       <<{"sqrt"}, {"e:", "a^", "ss"}>>,              \* [not-sign sqrt][...]
       <<WordChars, {"sqrt"}, {"pm"}, WordChars>>,    \* \w sqrt [pm, partial] \w
       <<{"eth"}, {"U+009F"}>>,                       \* [eth dstroke][Y: \x9f]
       <<{"a^"}, {"euro"}>>,                          \* a^ euro
       <<{"ve"}, {"DJE"}, {"deg", "ldquo"}>> >>       \* ve DJE [...]

-----------------------------------------------------------------------------
(* The scoring functions.                                                  *)

(* count_weird_adjacencies: len(WEIRDNESS_RE.findall(classified)), the     *)
(* first operand of line 185.                                              *)
count_weird_adjacencies(classified) == Len(findall(WEIRDNESS_RE, classified))

(* A body that adds the weirdness count once instead of twice.             *)
sequence_weirdness_body_unweighted(text, classes) ==
    LET text2 == NFC(text)
        weirdness == Len(findall(WEIRDNESS_RE, classes))
        adjustment ==
            Len(findall(MOJIBAKE_SYMBOL_RE, text2)) * 2
            - Len(findall(COMMON_SYMBOL_RE, text2))
    IN  [text2 |-> text2, classes |-> classes, weirdness |-> weirdness,
         adjustment |-> adjustment, err |-> "none",
         ret |-> weirdness + adjustment]

(* A body that adds the common-symbol count instead of subtracting it.     *)
sequence_weirdness_body_plus(text, classes) ==
    LET text2 == NFC(text)
        weirdness == Len(findall(WEIRDNESS_RE, classes))
        adjustment ==
            Len(findall(MOJIBAKE_SYMBOL_RE, text2)) * 2
            + Len(findall(COMMON_SYMBOL_RE, text2))
    IN  [text2 |-> text2, classes |-> classes, weirdness |-> weirdness,
         adjustment |-> adjustment, err |-> "none",
         ret |-> weirdness * 2 + adjustment]

(* A body that asserts the classifier's length contract before counting.   *)
sequence_weirdness_body_asserting(text, classes) ==
    LET text2 == NFC(text)
        weirdness == Len(findall(WEIRDNESS_RE, classes))
        adjustment ==
            Len(findall(MOJIBAKE_SYMBOL_RE, text2)) * 2
            - Len(findall(COMMON_SYMBOL_RE, text2))
    IN  IF Len(classes) # Len(text2)
        THEN [text2 |-> text2, classes |-> classes, weirdness |-> 0,
              adjustment |-> 0, err |-> "AssertionError", ret |-> 0]
        ELSE [text2 |-> text2, classes |-> classes, weirdness |-> weirdness,
              adjustment |-> adjustment, err |-> "none",
              ret |-> weirdness * 2 + adjustment]

(* The body of sequence_weirdness, lines 184-190, given what the call of   *)
(* chars_to_classes(text2) returned: the locals and the value returned.    *)
(* No statement of the body raises.                                        *)
sequence_weirdness_body(text, classes) ==
    LET text2 == NFC(text)
        weirdness == Len(findall(WEIRDNESS_RE, classes))
        adjustment ==
            Len(findall(MOJIBAKE_SYMBOL_RE, text2)) * 2
            - Len(findall(COMMON_SYMBOL_RE, text2))
    IN  [text2 |-> text2, classes |-> classes, weirdness |-> weirdness,
         adjustment |-> adjustment, err |-> "none",
         ret |-> weirdness * 2 + adjustment]

(* sequence_weirdness(text)                                                *)
sequence_weirdness(text) ==
    sequence_weirdness_body(text, chars_to_classes(NFC(text))).ret

(* A cost that adds the length of the normalized text.                     *)
text_cost_normalized(text) == sequence_weirdness(text) + Len(NFC(text))

(* text_cost(text), line 201                                               *)
text_cost(text) == sequence_weirdness(text) + Len(text)

-----------------------------------------------------------------------------
(* Inputs.                                                                 *)

RECURSIVE SeqsOf(_, _)
SeqsOf(S, n) ==
    IF n = 0 THEN {<<>>}
    ELSE LET shorter == SeqsOf(S, n - 1)
         IN  shorter \cup {Append(s, x) : s \in {q \in shorter : Len(q) = n - 1}, x \in S}

Texts == SeqsOf(Chars, MaxLen)
TagStrings == SeqsOf(Tags, MaxTagLen)

IdleCall ==
    [pc |-> "idle", fn |-> "none", text |-> <<>>, text2 |-> <<>>,
     classes |-> <<>>, weirdness |-> 0, adjustment |-> 0, err |-> "none",
     ret |-> 0]

IdleRun == [pc |-> "idle", classified |-> <<>>, matches |-> <<>>, count |-> 0]

Threads == {"t1", "t2"}

IdleThread ==
    [pc |-> "idle", fn |-> "none", text |-> <<>>, text2 |-> <<>>,
     weirdness |-> 0, adjustment |-> 0, sw |-> 0, ret |-> 0, calls |-> 0]

(* module import: the three patterns are compiled                          *)
Compiled ==
    /\ WEIRDNESS_RE = _make_weirdness_regex
    /\ COMMON_SYMBOL_RE = common_symbol_regex
    /\ MOJIBAKE_SYMBOL_RE = mojibake_symbol_regex

Patterns == <<WEIRDNESS_RE, COMMON_SYMBOL_RE, MOJIBAKE_SYMBOL_RE>>

-----------------------------------------------------------------------------
(* Sequential calls: sequence_weirdness(text) and text_cost(text).         *)

Init ==
    /\ Compiled
    /\ call \in {[IdleCall EXCEPT !.pc = "ready", !.text = t] : t \in Texts}
    /\ run = IdleRun
    /\ th = [t \in Threads |-> IdleThread]

SequenceWeirdness ==
    /\ call.pc = "ready"
    /\ LET f == sequence_weirdness_body(call.text, chars_to_classes(NFC(call.text)))
       IN  call' = [pc |-> "returned", fn |-> "sequence_weirdness",
                    text |-> call.text, text2 |-> f.text2, classes |-> f.classes,
                    weirdness |-> f.weirdness, adjustment |-> f.adjustment,
                    err |-> f.err, ret |-> f.ret]
    /\ UNCHANGED <<Patterns, run, th>>

TextCost ==
    /\ call.pc = "ready"
    /\ LET f == sequence_weirdness_body(call.text, chars_to_classes(NFC(call.text)))
       IN  call' = [pc |-> "returned", fn |-> "text_cost",
                    text |-> call.text, text2 |-> f.text2, classes |-> f.classes,
                    weirdness |-> f.weirdness, adjustment |-> f.adjustment,
                    err |-> f.err, ret |-> text_cost(call.text)]
    /\ UNCHANGED <<Patterns, run, th>>

Next == SequenceWeirdness \/ TextCost

Spec == Init /\ [][Next]_vars

-----------------------------------------------------------------------------
(* Properties of the sequential calls (specification Spec).                *)

Returned(fn) == call.pc = "returned" /\ call.fn = fn

(* C1: text_cost(text) is sequence_weirdness(text) plus the number of      *)
(* characters of text as passed in, not of its NFC form, for every text;   *)
(* the sum is returned as it is, negative or not.                          *)
C1_TextCostIsWeirdnessPlusRawLength ==
    Returned("text_cost") =>
        /\ call.ret = sequence_weirdness(call.text) + Len(call.text)
        /\ call.ret = 2 * call.weirdness + call.adjustment + Len(call.text)

(* a text_cost call on a text that normalization shortens                  *)
C1_Witness ==
    /\ Returned("text_cost")
    /\ Len(call.text2) < Len(call.text)

CommonSymbols == UNION {alt[1] : alt \in {COMMON_SYMBOL_RE[i] : i \in 1..Len(COMMON_SYMBOL_RE)}}

AllCommon(text) == \A k \in 1..Len(text) : text[k] \in CommonSymbols

(* C3: a text made only of characters of the common-symbol set, of any     *)
(* length, scores at most 0.                                               *)
C3_CommonSymbolsScoreAtMostZero ==
    (Returned("sequence_weirdness") /\ AllCommon(call.text)) => call.ret <= 0

(* a text of common symbols in which two of them form a weird adjacency    *)
C3_Witness ==
    /\ Returned("sequence_weirdness")
    /\ AllCommon(call.text)
    /\ call.weirdness > 0

IsPrefix(s, t) == Len(s) <= Len(t) /\ SubSeq(t, 1, Len(s)) = s

Front(s) == SubSeq(s, 1, Len(s) - 1)

EndsInC1(text) == Len(text) > 0 /\ char_class(text[Len(text)]) = "X"

(* C4: for a text t and a C1 control character c, the score of t followed  *)
(* by c is at least the score of t plus 2: every match counted in t is     *)
(* still counted, and c adds a weird match.                                *)
C4_AppendedC1AddsAtLeastTwo ==
    (Returned("sequence_weirdness") /\ EndsInC1(call.text)) =>
        LET t == Front(call.text)
            t2 == NFC(t)
        IN  /\ call.ret >= sequence_weirdness(t) + 2
            /\ call.weirdness = count_weird_adjacencies(chars_to_classes(t2)) + 1
            /\ IsPrefix(findall(WEIRDNESS_RE, chars_to_classes(t2)),
                        findall(WEIRDNESS_RE, call.classes))
            /\ IsPrefix(findall(MOJIBAKE_SYMBOL_RE, t2),
                        findall(MOJIBAKE_SYMBOL_RE, call.text2))
            /\ findall(COMMON_SYMBOL_RE, t2) = findall(COMMON_SYMBOL_RE, call.text2)

(* a C1 control character appended to a text that already has a weird      *)
(* match and a mojibake match                                              *)
C4_Witness ==
    /\ Returned("sequence_weirdness")
    /\ EndsInC1(call.text)
    /\ count_weird_adjacencies(chars_to_classes(NFC(Front(call.text)))) > 0
    /\ Len(findall(MOJIBAKE_SYMBOL_RE, NFC(Front(call.text)))) > 0

(* text[i], text[i+1] are a Latin lowercase letter and a non-Latin letter, *)
(* in either order                                                         *)
MixedPairAt(text, i) ==
    LET x == char_class(text[i])
        y == char_class(text[i + 1])
    IN  \/ x = "l" /\ y \in {"A", "a", "C"}
        \/ y = "l" /\ x \in {"A", "a", "C"}

(* script-neutral separators: class 'other' or whitespace                  *)
Separators == {c \in Chars : char_class(c) \in {"o", " "}}

InsertAfter(text, i, c) ==
    SubSeq(text, 1, i) \o <<c>> \o SubSeq(text, i + 1, Len(text))

-----------------------------------------------------------------------------
(* WEIRDNESS_RE.findall on class strings of every shape.                   *)

InitTags ==
    /\ Compiled
    /\ call = IdleCall
    /\ run \in {[IdleRun EXCEPT !.pc = "ready", !.classified = s] : s \in TagStrings}
    /\ th = [t \in Threads |-> IdleThread]

CountWeirdAdjacencies ==
    /\ run.pc = "ready"
    /\ run' = [pc |-> "done", classified |-> run.classified,
               matches |-> findall(WEIRDNESS_RE, run.classified),
               count |-> count_weird_adjacencies(run.classified)]
    /\ UNCHANGED <<Patterns, call, th>>

NextTags == CountWeirdAdjacencies

SpecTags == InitTags /\ [][NextTags]_vars

(* C8 as stated: in a two-tag string with one Latin tag (L or l) and one   *)
(* non-Latin letter tag (A, a or C), the script-mixing rule counts 1 when  *)
(* the Latin tag is l and 0 when it is L.                                  *)
LatinTags == {"L", "l"}
NonLatinTags == {"A", "a", "C"}

MixedTagPair(s) ==
    /\ Len(s) = 2
    /\ \/ s[1] \in LatinTags /\ s[2] \in NonLatinTags
       \/ s[2] \in LatinTags /\ s[1] \in NonLatinTags

C8_OnlyLowercaseLatinFires ==
    (run.pc = "done" /\ MixedTagPair(run.classified)) =>
        run.count = IF "l" \in {run.classified[1], run.classified[2]} THEN 1 ELSE 0

(* C8 amended: the rule fires for a Latin tag of either case: every        *)
(* two-tag string with one tag in {L, l} and the other in {A, a, C}, in    *)
(* either order, counts 1.                                                 *)
C8_AnyLatinTagFires ==
    (run.pc = "done" /\ MixedTagPair(run.classified)) =>
        /\ run.count = 1
        /\ run.matches[1].alt \in {2, 3}

(* a non-cased letter followed by a Latin capital has been counted         *)
C8_Witness ==
    /\ run.pc = "done"
    /\ run.classified = <<"C", "L">>
    /\ run.count = 1

ExclusiveTags == {"M", "m", "N", "1", "3"}

(* C9: a two-tag string over {M, m, N, 1, 3} counts 1 when the two tags    *)
(* differ (all 20 ordered pairs) and 0 when they are equal.                *)
C9_ExclusivePairs ==
    (/\ run.pc = "done"
     /\ Len(run.classified) = 2
     /\ run.classified[1] \in ExclusiveTags
     /\ run.classified[2] \in ExclusiveTags) =>
        run.count = IF run.classified[1] # run.classified[2] THEN 1 ELSE 0

(* the last pair the loop generates, an other-symbol before a math symbol, *)
(* has been counted                                                        *)
C9_Witness ==
    /\ run.pc = "done"
    /\ run.classified = <<"3", "1">>
    /\ run.count = 1

Alternating(s) ==
    \A k \in 1..Len(s) : s[k] = IF k % 2 = 1 THEN "l" ELSE "a"

(* C10: the matches counted are non-overlapping and in scan order: each    *)
(* position lies in at most one match, a two-tag match consumes both its   *)
(* tags, the count never exceeds the length, and an alternating l,a,l,...  *)
(* string of n tags counts n div 2.                                        *)
C10_NonOverlappingScan ==
    run.pc = "done" =>
        /\ run.count = Len(run.matches)
        /\ \A j \in 1..Len(run.matches) :
               /\ run.matches[j].start >= 1
               /\ run.matches[j].len >= 1
               /\ run.matches[j].start + run.matches[j].len - 1 <= Len(run.classified)
        /\ \A j \in 1..(Len(run.matches) - 1) :
               run.matches[j].start + run.matches[j].len <= run.matches[j + 1].start
        /\ run.count <= Len(run.classified)
        /\ Alternating(run.classified) => run.count = Len(run.classified) \div 2

(* an alternating string of three tags, whose middle tag could pair with   *)
(* either neighbour                                                        *)
C10_Witness ==
    /\ run.pc = "done"
    /\ Alternating(run.classified)
    /\ Len(run.classified) = 3
    /\ run.count = 1

-----------------------------------------------------------------------------
(* sequence_weirdness when chars_to_classes breaks its contract and        *)
(* returns a class string of another length than the normalized text.      *)

(* what the classifier may hand back for text2: the class string, or the   *)
(* class string with its last tag missing or with one tag too many         *)
ClassifierOutputs(text2) ==
    LET c == chars_to_classes(text2)
    IN  {c} \cup {Append(c, t) : t \in Tags}
            \cup (IF Len(c) > 0 THEN {SubSeq(c, 1, Len(c) - 1)} ELSE {})

InitMismatch ==
    /\ Compiled
    /\ call \in {[IdleCall EXCEPT !.pc = "ready", !.text = t] :
                    t \in SeqsOf(Chars, MaxMisLen)}
    /\ run = IdleRun
    /\ th = [t \in Threads |-> IdleThread]

SequenceWeirdnessOn(classes) ==
    /\ call.pc = "ready"
    /\ LET f == sequence_weirdness_body(call.text, classes)
       IN  call' = [pc |-> "returned", fn |-> "sequence_weirdness",
                    text |-> call.text, text2 |-> f.text2, classes |-> f.classes,
                    weirdness |-> f.weirdness, adjustment |-> f.adjustment,
                    err |-> f.err, ret |-> f.ret]
    /\ UNCHANGED <<Patterns, run, th>>

NextMismatch ==
    \E classes \in ClassifierOutputs(NFC(call.text)) : SequenceWeirdnessOn(classes)

SpecMismatch == InitMismatch /\ [][NextMismatch]_vars

Mismatched == Returned("sequence_weirdness") /\ Len(call.classes) # Len(call.text2)

(* C6 as stated: when the class string's length differs from the           *)
(* normalized text's, sequence_weirdness raises an assertion-style error   *)
(* instead of returning a score.                                           *)
C6_MismatchIsRejected == Mismatched => call.err = "AssertionError"

(* C6 amended: sequence_weirdness compares no lengths: on a class string   *)
(* of another length it raises nothing and returns twice the matches found *)
(* in the class string as given, plus the adjustment of the text.          *)
C6_MismatchIsScored ==
    Mismatched =>
        /\ call.err = "none"
        /\ call.ret = 2 * Len(findall(WEIRDNESS_RE, call.classes))
                      + 2 * Len(findall(MOJIBAKE_SYMBOL_RE, call.text2))
                      - Len(findall(COMMON_SYMBOL_RE, call.text2))

(* a call scored on a class string one tag longer than its text, the extra *)
(* tag counted as a weird match                                            *)
C6_Witness ==
    /\ Mismatched
    /\ Len(call.classes) = Len(call.text2) + 1
    /\ call.weirdness = count_weird_adjacencies(chars_to_classes(call.text2)) + 1

-----------------------------------------------------------------------------
(* Concurrent calls: each thread runs sequence_weirdness or text_cost one  *)
(* statement at a time; the statements of different threads interleave.    *)

ConcTexts ==
    {<<"e", "U+0308">>, <<"A^", "U+009F">>, <<"ve", "e">>, <<"deg", "times">>}

InitConc ==
    /\ Compiled
    /\ call = IdleCall
    /\ run = IdleRun
    /\ th = [t \in Threads |-> IdleThread]

(* thread t calls fn(text)                                                 *)
Call(t, fn, text) ==
    /\ th[t].pc \in {"idle", "returned"}
    /\ th[t].calls < MaxCalls
    /\ th' = [th EXCEPT ![t] =
                 [IdleThread EXCEPT !.pc = "normalize", !.fn = fn, !.text = text,
                                    !.calls = th[t].calls + 1]]
    /\ UNCHANGED <<Patterns, call, run>>

(* line 184                                                                *)
Normalize(t) ==
    /\ th[t].pc = "normalize"
    /\ th' = [th EXCEPT ![t].text2 = NFC(th[t].text), ![t].pc = "count"]
    /\ UNCHANGED <<Patterns, call, run>>

(* A statement that keeps the unmatched groups out of the shared pattern   *)
(* after matching.                                                         *)
CountWeirdPruning(t) ==
    /\ th[t].pc = "count"
    /\ LET found == findall(WEIRDNESS_RE, chars_to_classes(th[t].text2))
       IN  /\ th' = [th EXCEPT ![t].weirdness = Len(found), ![t].pc = "adjust"]
           /\ WEIRDNESS_RE' =
                  IF found = <<>> THEN WEIRDNESS_RE
                  ELSE [j \in 1..Len(found) |-> WEIRDNESS_RE[found[j].alt]]
    /\ UNCHANGED <<COMMON_SYMBOL_RE, MOJIBAKE_SYMBOL_RE, call, run>>

(* line 185                                                                *)
CountWeird(t) ==
    /\ th[t].pc = "count"
    /\ th' = [th EXCEPT
                 ![t].weirdness = count_weird_adjacencies(chars_to_classes(th[t].text2)),
                 ![t].pc = "adjust"]
    /\ UNCHANGED <<Patterns, call, run>>

(* lines 186-189                                                           *)
Adjust(t) ==
    /\ th[t].pc = "adjust"
    /\ th' = [th EXCEPT
                 ![t].adjustment =
                     Len(findall(MOJIBAKE_SYMBOL_RE, th[t].text2)) * 2
                     - Len(findall(COMMON_SYMBOL_RE, th[t].text2)),
                 ![t].pc = "return"]
    /\ UNCHANGED <<Patterns, call, run>>

(* line 190: sequence_weirdness returns, to its caller or into text_cost   *)
ReturnWeirdness(t) ==
    /\ th[t].pc = "return"
    /\ LET v == th[t].weirdness * 2 + th[t].adjustment
       IN  th' = [th EXCEPT
                     ![t].sw = v,
                     ![t].ret = IF th[t].fn = "sequence_weirdness" THEN v ELSE 0,
                     ![t].pc = IF th[t].fn = "sequence_weirdness"
                               THEN "returned" ELSE "cost"]
    /\ UNCHANGED <<Patterns, call, run>>

(* line 201                                                                *)
ReturnCost(t) ==
    /\ th[t].pc = "cost"
    /\ th' = [th EXCEPT ![t].ret = th[t].sw + Len(th[t].text), ![t].pc = "returned"]
    /\ UNCHANGED <<Patterns, call, run>>

NextConc ==
    \E t \in Threads :
        \/ \E text \in ConcTexts : Call(t, "sequence_weirdness", text)
        \/ \E text \in ConcTexts : Call(t, "text_cost", text)
        \/ Normalize(t)
        \/ CountWeird(t)
        \/ Adjust(t)
        \/ ReturnWeirdness(t)
        \/ ReturnCost(t)

SpecConc == InitConc /\ [][NextConc]_vars

(* the value of fn(text) computed alone with the patterns as compiled      *)
AloneWeirdness(text) ==
    LET text2 == NFC(text)
    IN  2 * Len(findall(_make_weirdness_regex, chars_to_classes(text2)))
        + 2 * Len(findall(mojibake_symbol_regex, text2))
        - Len(findall(common_symbol_regex, text2))

Alone(fn, text) ==
    IF fn = "text_cost" THEN AloneWeirdness(text) + Len(text)
    ELSE AloneWeirdness(text)

(* C7: whatever the interleaving of concurrent sequence_weirdness and      *)
(* text_cost calls, the three compiled patterns keep the value they were   *)
(* compiled to, and every call returns what it returns when run alone.     *)
C7_PatternsImmutableCallsIndependent ==
    /\ Compiled
    /\ \A t \in Threads :
           th[t].pc = "returned" => th[t].ret = Alone(th[t].fn, th[t].text)

(* a text_cost call has returned in one thread while a sequence_weirdness  *)
(* call of the other thread is between its two counting statements         *)
C7_Witness ==
    /\ th["t1"].pc = "returned" /\ th["t1"].fn = "text_cost"
    /\ th["t2"].pc = "adjust" /\ th["t2"].fn = "sequence_weirdness"
    /\ th["t1"].ret # 0

====
